---- MODULE Spec2Model ----
(***************************************************************************)
(* A model of DI4Marketing's synthetic known-customer generator            *)
(* (DataSynthesis/enhanced_known_generator.py).                            *)
(*                                                                         *)
(* Probabilities are integers in hundredths (0.65 is 65), the scores a     *)
(* beta draw yields are in ten-thousandths before rounding and in          *)
(* thousandths after it, durations are in tenths of a second.              *)
(*                                                                         *)
(* The pseudorandom sources are nondeterministic: every draw site has an   *)
(* ordered range of outcomes.  `focus` is the set of draw sites whose      *)
(* whole range a behaviour explores; a site outside it yields the one      *)
(* outcome its source yields for `seed`.                                   *)
(***************************************************************************)
EXTENDS Integers, Sequences, FiniteSets, TLC

VARIABLES
    cfg,          \* the generator's tables (the attributes __init__ sets)
    mode,         \* "known" | "anonymous": the variant of the sampler
    focus,        \* the draw sites explored over their whole range
    seed,         \* the seed of the pseudorandom sources
    num_records,  \* self.num_records
    i,            \* the loop index of generate_enhanced_dataset
    pc,           \* the statement the loop body is at
    loc,          \* the locals of the loop body
    defined,      \* the locals assigned so far in this iteration
    data,         \* the list `data` of records appended so far
    err,          \* the exception that ended generation, or "none"
    run,          \* 1 for the first run of the generator, 2 for its repetition
    prev,         \* the records of the first run, once it is repeated
    csv,          \* the rows main wrote to the backup file, or None
    up,           \* the state of a call of upload_enhanced_data
    mgr,          \* the state of a DatabricksJDBCManager
    script        \* the script that drives the manager, and where it is at

vars ==
    <<cfg, mode, focus, seed, num_records, i, pc, loc, defined, data, err, run, prev,
      csv, up, mgr, script>>

\* ---------------------------------------------------------------- bounds

\* Seeds 0..MaxSeed are tried.
MaxSeed == 1
\* num_records is at most MaxRecords where the loop itself is explored.
MaxRecords == 2
\* The Poisson draw of page views is explored up to MaxPoisson.
MaxPoisson == 4

\* upload_enhanced_data is called with tables of 0..MaxRows rows.
MaxRows == 601

\* At most MaxCalls methods are called on one DatabricksJDBCManager.
MaxCalls == 3

None == "None"

\* ------------------------------------------------------ the configuration

\* An entry of apj_countries whose city_types names the first city only.
Country_first_city_typed(w, cities, states, tz) ==
    [weight |-> w, cities |-> cities, states |-> states, timezone |-> tz,
     city_types |-> [c \in {cities[1]} |-> "metro"]]

Country(w, cities, states, tz) ==
    [weight |-> w, cities |-> cities, states |-> states, timezone |-> tz,
     city_types |-> [c \in {cities[k] : k \in 1..Len(cities)} |-> "metro"]]

apj_countries ==
    [Australia |-> Country(15, <<"Sydney", "Melbourne", "Brisbane", "Perth">>,
                           <<"NSW", "VIC", "QLD", "WA">>, "AEDT"),
     Japan |-> Country(20, <<"Tokyo", "Osaka", "Yokohama", "Nagoya">>,
                       <<"Tokyo", "Osaka", "Kanagawa", "Aichi">>, "JST"),
     China |-> Country(25, <<"Shanghai", "Beijing", "Guangzhou", "Shenzhen">>,
                       <<"Shanghai", "Beijing", "Guangdong", "Guangdong">>, "CST"),
     India |-> Country(18, <<"Mumbai", "Delhi", "Bangalore", "Chennai">>,
                       <<"Maharashtra", "Delhi", "Karnataka", "Tamil Nadu">>, "IST"),
     Singapore |-> Country(5, <<"Singapore">>, <<"Singapore">>, "SGT"),
     Thailand |-> Country(3, <<"Bangkok", "Chiang Mai">>, <<"Bangkok", "Chiang Mai">>, "ICT"),
     Malaysia |-> Country(2, <<"Kuala Lumpur", "Penang">>, <<"Selangor", "Penang">>, "MYT")]
    @@ ("South Korea" :> Country(12, <<"Seoul", "Busan", "Incheon", "Daegu">>,
                                 <<"Seoul", "Busan", "Incheon", "Daegu">>, "KST"))

\* The insertion order of apj_countries' keys, followed by the country a
\* synthetic configuration adds.
CountryOrder ==
    <<"Australia", "Japan", "South Korea", "China", "India", "Singapore",
      "Thailand", "Malaysia", "New Zealand">>

locality_types == <<"metro", "suburban", "regional">>
locality_weights == <<55, 30, 15>>

devices ==
    [mobile |-> [browsers |-> <<"Chrome Mobile", "Safari Mobile", "Samsung Internet", "Firefox Mobile">>,
                 os |-> <<"Android", "iOS">>],
     desktop |-> [browsers |-> <<"Chrome", "Safari", "Firefox", "Edge">>,
                  os |-> <<"Windows", "macOS", "Linux">>],
     tablet |-> [browsers |-> <<"Chrome Mobile", "Safari Mobile">>,
                 os |-> <<"Android", "iOS">>]]

utm_sources ==
    <<"google", "facebook", "instagram", "linkedin", "twitter", "tiktok",
      "youtube", "bing", "direct", "organic">>
utm_mediums ==
    <<"cpc", "organic", "social", "email", "referral", "direct", "display", "video">>

segments ==
    <<"new-customer", "returning", "high-value", "medium-value", "low-value",
      "vip", "at-risk", "loyal", "re-engaged">>

email_domains ==
    [Australia |-> <<"gmail.com", "yahoo.com.au", "outlook.com.au", "bigpond.com", "optusnet.com.au">>,
     Japan |-> <<"gmail.com", "yahoo.co.jp", "outlook.jp", "nifty.com", "biglobe.ne.jp">>,
     China |-> <<"gmail.com", "qq.com", "163.com", "126.com", "sina.com">>,
     India |-> <<"gmail.com", "yahoo.in", "rediffmail.com", "outlook.in", "hotmail.com">>,
     Singapore |-> <<"gmail.com", "yahoo.com.sg", "outlook.sg", "singnet.com.sg">>,
     Thailand |-> <<"gmail.com", "yahoo.co.th", "hotmail.com", "outlook.co.th">>,
     Malaysia |-> <<"gmail.com", "yahoo.com.my", "hotmail.my", "outlook.my">>]
    @@ ("South Korea" :> <<"gmail.com", "naver.com", "daum.net", "hanmail.net", "korea.com">>)

\* (low, high, label)
age_bands ==
    <<<<18, 24, "18-24">>, <<25, 34, "25-34">>, <<35, 44, "35-44">>,
      <<45, 54, "45-54">>, <<55, 64, "55-64">>, <<65, 99, "65+">>>>

\* age_band_weights with a last weight that leaves the sum at 0.99.
age_band_weights_short == <<28, 32, 18, 12, 7, 2>>

age_band_weights == <<28, 32, 18, 12, 7, 3>>

income_levels == <<"budget_conscious", "mid_tier", "luxury">>
income_probabilities ==
    ("18-24" :> <<65, 30, 5>>) @@ ("25-34" :> <<45, 45, 10>>) @@
    ("35-44" :> <<30, 50, 20>>) @@ ("45-54" :> <<25, 45, 30>>) @@
    ("55-64" :> <<30, 40, 30>>) @@ ("65+" :> <<40, 35, 25>>)

life_stages == <<"student", "young_professional", "parent", "empty_nester", "retiree">>
life_stage_probabilities ==
    ("18-24" :> <<60, 35, 5, 0, 0>>) @@ ("25-34" :> <<10, 55, 35, 0, 0>>) @@
    ("35-44" :> <<2, 25, 70, 3, 0>>) @@ ("45-54" :> <<0, 15, 60, 25, 0>>) @@
    ("55-64" :> <<0, 10, 20, 60, 10>>) @@ ("65+" :> <<0, 5, 5, 20, 70>>)

purchase_frequencies == <<"low_frequency", "medium_frequency", "high_frequency">>
purchase_values == <<"low_value", "medium_value", "high_value">>
brand_loyalties == <<"brand_switcher", "moderately_loyal", "brand_loyal">>
shopping_channels == <<"online_only", "offline_only", "omnichannel">>

purchase_freq_by_income ==
    [budget_conscious |-> <<70, 25, 5>>, mid_tier |-> <<30, 55, 15>>, luxury |-> <<15, 35, 50>>]

\* keyed by <<age_band, income_level>>
purchase_value_matrix ==
    (<<"18-24", "budget_conscious">> :> <<85, 15, 0>>) @@
    (<<"18-24", "mid_tier">> :> <<60, 35, 5>>) @@
    (<<"18-24", "luxury">> :> <<30, 50, 20>>) @@
    (<<"25-34", "budget_conscious">> :> <<75, 20, 5>>) @@
    (<<"25-34", "mid_tier">> :> <<45, 45, 10>>) @@
    (<<"25-34", "luxury">> :> <<20, 50, 30>>) @@
    (<<"35-44", "budget_conscious">> :> <<70, 25, 5>>) @@
    (<<"35-44", "mid_tier">> :> <<35, 50, 15>>) @@
    (<<"35-44", "luxury">> :> <<15, 45, 40>>) @@
    (<<"45-54", "budget_conscious">> :> <<65, 30, 5>>) @@
    (<<"45-54", "mid_tier">> :> <<30, 50, 20>>) @@
    (<<"45-54", "luxury">> :> <<10, 40, 50>>) @@
    (<<"55-64", "budget_conscious">> :> <<70, 25, 5>>) @@
    (<<"55-64", "mid_tier">> :> <<35, 45, 20>>) @@
    (<<"55-64", "luxury">> :> <<15, 35, 50>>) @@
    (<<"65+", "budget_conscious">> :> <<75, 20, 5>>) @@
    (<<"65+", "mid_tier">> :> <<40, 45, 15>>) @@
    (<<"65+", "luxury">> :> <<20, 40, 40>>)

brand_loyalty_by_life_stage ==
    [student |-> <<60, 30, 10>>, young_professional |-> <<45, 40, 15>>,
     parent |-> <<25, 45, 30>>, empty_nester |-> <<30, 40, 30>>,
     retiree |-> <<20, 35, 45>>]

channel_by_locality ==
    [metro |-> <<45, 15, 40>>, suburban |-> <<35, 25, 40>>, regional |-> <<25, 45, 30>>]

engagement_behaviors == <<"passive", "browser", "researcher", "active_buyer">>
price_sensitivities == <<"price_conscious", "value_seeker", "premium_buyer">>
product_interests ==
    <<"electronics", "fashion", "home_garden", "health_beauty", "books_media", "sports_outdoors">>

\* The generator after __init__.
ShippedConfig ==
    [apj_countries |-> apj_countries,
     locality_types |-> locality_types,
     locality_weights |-> locality_weights,
     devices |-> devices,
     utm_sources |-> utm_sources,
     utm_mediums |-> utm_mediums,
     segments |-> segments,
     email_domains |-> email_domains,
     age_bands |-> age_bands,
     age_band_weights |-> age_band_weights,
     income_levels |-> income_levels,
     income_probabilities |-> income_probabilities,
     life_stages |-> life_stages,
     life_stage_probabilities |-> life_stage_probabilities,
     purchase_frequencies |-> purchase_frequencies,
     purchase_values |-> purchase_values,
     brand_loyalties |-> brand_loyalties,
     shopping_channels |-> shopping_channels,
     purchase_freq_by_income |-> purchase_freq_by_income,
     purchase_value_matrix |-> purchase_value_matrix,
     brand_loyalty_by_life_stage |-> brand_loyalty_by_life_stage,
     channel_by_locality |-> channel_by_locality,
     engagement_behaviors |-> engagement_behaviors,
     price_sensitivities |-> price_sensitivities,
     product_interests |-> product_interests]

\* ------------------------------------------------------ sequences, numbers

Range(s) == {s[k] : k \in 1..Len(s)}

\* lo, lo+1, ..., hi: the outcomes of random.randint(lo, hi)
Interval(lo, hi) == [k \in 1..(hi - lo + 1) |-> lo + k - 1]

RECURSIVE SumSeq(_)
SumSeq(s) == IF s = <<>> THEN 0 ELSE Head(s) + SumSeq(Tail(s))

RECURSIVE Support(_, _)
\* the entries of a whose weight in p is positive, in order
Support(a, p) ==
    IF a = <<>> \/ p = <<>> THEN <<>>
    ELSE (IF Head(p) > 0 THEN <<Head(a)>> ELSE <<>>) \o Support(Tail(a), Tail(p))

Max(a, b) == IF a >= b THEN a ELSE b
Min(a, b) == IF a <= b THEN a ELSE b

\* Python's int() of the number n / d (d > 0): truncation toward zero
TruncDiv(n, d) == IF n >= 0 THEN n \div d ELSE -((-n) \div d)

\* round() of n / d to the nearest integer (the ranges below hold no tie)
RoundDiv(n, d) == (2 * n + d) \div (2 * d)

\* ------------------------------------------------------------ the sources

\* The draw sites read from a seeded source, in the order the loop body
\* reaches them.
SeededSites ==
    <<"country", "city", "state", "locality", "device_type", "browser", "os",
      "screen", "viewport", "cust_date", "cust_rand", "email_domain",
      "email_pattern", "phone_digits", "age_band", "age", "dob_offset",
      "income", "life_stage", "bounce", "duration", "gamma", "page_views",
      "scroll", "click", "utm_branch", "utm_source", "utm_medium",
      "utm_campaign", "normal", "beta_churn", "beta_conv",
      "purchase_frequency", "purchase_value", "brand_loyalty",
      "shopping_channel", "price_sensitivity", "product_interest", "event_r",
      "last_event", "event_page", "event_time", "event_duration", "ip_base",
      "ip_octet", "landing_page", "hour", "day_of_week", "is_weekend">>

\* uuid.uuid4() reads os.urandom and datetime.today() / Faker's 'now' read
\* the clock: no seed reaches either.
UnseededSites == <<"uuid", "clock">>

SiteNo(site) == CHOOSE k \in 1..Len(SeededSites) : SeededSites[k] = site

\* The outcomes a draw at `site` over the ordered range rng can take.
Draw(site, rng) ==
    IF site \in focus THEN Range(rng)
    ELSE IF site \in Range(UnseededSites) THEN {rng[1]}
    ELSE {rng[((seed + SiteNo(site)) % Len(rng)) + 1]}

\* random.random(), in hundredths
RandomRange == <<0, 14, 15, 29, 30, 99>>
\* np.random.gamma(3, 150), in tenths of a second
GammaRange == <<0, 449, 450, 455, 12345, 47999, 48000, 48001, 90000>>
\* np.random.poisson(4.2)
PoissonRange == Interval(0, MaxPoisson)
\* The integers at which engagement_score is compared, and its two ends.
ScoreMarks == <<0, 30, 40, 50, 60, 70, 80, 85, 100>>
RECURSIVE Around(_)
Around(marks) ==
    IF marks = <<>> THEN <<>>
    ELSE LET t == 10 * Head(marks)
         IN  <<t - 11, t - 1, t, t + 9, t + 10>> \o Around(Tail(marks))
\* np.random.normal(65, 18), in tenths
NormalRange == <<-600>> \o Around(ScoreMarks) \o <<1500>>
\* np.random.beta(a, b), in ten-thousandths
BetaRange == <<0, 2994, 3000, 3006, 6994, 7000, 7006, 9996, 10000>>
\* uuid.uuid4()
UuidRange == <<"A1", "B2">>
\* the day datetime.today() and Faker's 'now' fall on
ClockRange == <<20000, 20001>>

\* --------------------------------------------------------- numpy's choice

\* np.random.choice(a, p=p) raises ValueError unless p is as long as a, has no
\* negative entry and sums to 1.
NpChoiceRaises(a, p) ==
    \/ Len(a) # Len(p)
    \/ \E k \in 1..Len(p) : p[k] < 0
    \/ SumSeq(p) # 100

\* Otherwise it returns an entry of positive probability.
NpChoiceRange(a, p) == Support(a, p)

\* A helper's outcomes are records of the values it returns; an outcome with
\* the field exc is the exception it raises instead.
Raised(e) == [exc |-> e]

\* ------------------------------------------------------------ the helpers

\* _generate_geo_data that reads the timezone of the first country of the
\* table instead of the drawn one.
_generate_geo_data_first_tz ==
    LET countries == SelectSeq(CountryOrder, LAMBDA c : c \in DOMAIN cfg.apj_countries)
        weights == [k \in 1..Len(countries) |-> cfg.apj_countries[countries[k]].weight]
        Locality(country, cd, city, state) ==
            LET geo == [country |-> country, state |-> state, city |-> city,
                        timezone |-> cfg.apj_countries[countries[1]].timezone]
            IN  IF "city_types" \in DOMAIN cd /\ city \in DOMAIN cd.city_types
                THEN {geo @@ [locality_type |-> cd.city_types[city]]}
                ELSE IF NpChoiceRaises(cfg.locality_types, cfg.locality_weights)
                THEN {Raised("ValueError")}
                ELSE {geo @@ [locality_type |-> l] :
                        l \in Draw("locality",
                                   NpChoiceRange(cfg.locality_types, cfg.locality_weights))}
    IN  UNION {UNION {Locality(country, cfg.apj_countries[country], city, state) :
                        city \in Draw("city", cfg.apj_countries[country].cities),
                        state \in Draw("state", cfg.apj_countries[country].states)} :
                 country \in Draw("country", Support(countries, weights))}

_generate_geo_data ==
    LET countries == SelectSeq(CountryOrder, LAMBDA c : c \in DOMAIN cfg.apj_countries)
        weights == [k \in 1..Len(countries) |-> cfg.apj_countries[countries[k]].weight]
        Locality(country, cd, city, state) ==
            LET geo == [country |-> country, state |-> state, city |-> city,
                        timezone |-> cd.timezone]
            IN  IF "city_types" \in DOMAIN cd /\ city \in DOMAIN cd.city_types
                THEN {geo @@ [locality_type |-> cd.city_types[city]]}
                ELSE IF NpChoiceRaises(cfg.locality_types, cfg.locality_weights)
                THEN {Raised("ValueError")}
                ELSE {geo @@ [locality_type |-> l] :
                        l \in Draw("locality",
                                   NpChoiceRange(cfg.locality_types, cfg.locality_weights))}
    IN  UNION {UNION {Locality(country, cfg.apj_countries[country], city, state) :
                        city \in Draw("city", cfg.apj_countries[country].cities),
                        state \in Draw("state", cfg.apj_countries[country].states)} :
                 country \in Draw("country", Support(countries, weights))}

\* The list and the weights device_type is drawn with (line 305).
device_types == <<"mobile", "desktop", "tablet">>
device_weights == <<65, 25, 10>>

_generate_device_data ==
    LET Specs(device_type) ==
            IF device_type = "mobile"
            THEN {[screen_res |-> r, viewport |-> r] :
                    r \in Draw("screen", <<"375x667", "414x896", "360x640", "393x851", "428x926">>)}
            ELSE IF device_type = "desktop"
            THEN {[screen_res |-> r, viewport |-> v] :
                    r \in Draw("screen", <<"1920x1080", "1366x768", "1536x864", "2560x1440", "1440x900">>),
                    v \in Draw("viewport", <<"1200x800", "1366x768", "1536x864", "1920x1080">>)}
            ELSE {[screen_res |-> r, viewport |-> r] :
                    r \in Draw("screen", <<"768x1024", "1024x768", "820x1180", "810x1080">>)}
        Device(device_type) ==
            IF device_type \notin DOMAIN cfg.devices THEN {Raised("KeyError")}
            ELSE {[device_type |-> device_type, browser |-> b, os |-> o] @@ sp :
                    b \in Draw("browser", cfg.devices[device_type].browsers),
                    o \in Draw("os", cfg.devices[device_type].os),
                    sp \in Specs(device_type)}
    IN  UNION {Device(device_type) :
                 device_type \in Draw("device_type",
                                      NpChoiceRange(device_types, device_weights))}

\* CUST_<date>_<six digits>: the date is at most two years before today.
_generate_customer_id ==
    {[customer_id |-> [date |-> today - back, random_part |-> r]] :
        today \in Draw("clock", ClockRange),
        back \in Draw("cust_date", <<0, 730>>),
        r \in Draw("cust_rand", <<100000, 999999>>)}

\* <username>@<domain>: the username is one of six patterns over Faker's names.
_generate_email(country) ==
    LET domains == IF country \in DOMAIN cfg.email_domains
                   THEN cfg.email_domains[country]
                   ELSE <<"gmail.com", "yahoo.com", "outlook.com">>
    IN  {[email |-> [username |-> u, domain |-> d]] :
            d \in Draw("email_domain", domains),
            u \in Draw("email_pattern", Interval(1, 6))}

phone_patterns ==
    [Australia |-> "+61 4{} {} {}", Japan |-> "+81 90 {} {}", China |-> "+86 138 {} {}",
     India |-> "+91 98{} {} {}", Singapore |-> "+65 9{} {}", Thailand |-> "+66 8{} {}",
     Malaysia |-> "+60 12 {} {}"]
    @@ ("South Korea" :> "+82 10 {} {}")

\* The pattern and the digit groups that fill it.
_generate_phone_number(country) ==
    LET pattern == IF country \in DOMAIN phone_patterns
                   THEN phone_patterns[country] ELSE "+1 555 {} {}"
        groups == IF country \in {"Australia", "India"}
                  THEN {<<a, b, c>> : a \in Draw("phone_digits", <<10, 99>>),
                                      b \in Draw("phone_digits", <<100, 999>>),
                                      c \in Draw("phone_digits", <<100, 999>>)}
                  ELSE IF country \in {"Japan", "South Korea", "Singapore", "China"}
                  THEN {<<a, b>> : a \in Draw("phone_digits", <<1000, 9999>>),
                                   b \in Draw("phone_digits", <<1000, 9999>>)}
                  ELSE IF country \in {"Thailand", "Malaysia"}
                  THEN {<<a, b>> : a \in Draw("phone_digits", <<10, 99>>),
                                   b \in Draw("phone_digits", <<1000, 9999>>)}
                  ELSE {<<a, b>> : a \in Draw("phone_digits", <<100, 999>>),
                                   b \in Draw("phone_digits", <<1000, 9999>>)}
    IN  {[phone_number |-> [pattern |-> pattern, digits |-> g]] : g \in groups}

\* _generate_age_and_band with an upper bound of the age one past the band.
_generate_age_and_band_past_end ==
    LET bands == Interval(1, Len(cfg.age_bands))
    IN  IF NpChoiceRaises(bands, cfg.age_band_weights) THEN {Raised("ValueError")}
        ELSE UNION {{[dob |-> today - (age * 365 + off), age |-> age,
                      age_band |-> cfg.age_bands[band_idx][3]] :
                        age \in Draw("age", Interval(cfg.age_bands[band_idx][1],
                                                     cfg.age_bands[band_idx][2] + 1)),
                        today \in Draw("clock", ClockRange),
                        off \in Draw("dob_offset", <<0, 364>>)} :
                     band_idx \in Draw("age_band", NpChoiceRange(bands, cfg.age_band_weights))}

\* dob is a day number: today less age years of 365 days and up to 364 days.
_generate_age_and_band ==
    LET bands == Interval(1, Len(cfg.age_bands))
    IN  IF NpChoiceRaises(bands, cfg.age_band_weights) THEN {Raised("ValueError")}
        ELSE UNION {{[dob |-> today - (age * 365 + off), age |-> age,
                      age_band |-> cfg.age_bands[band_idx][3]] :
                        age \in Draw("age", Interval(cfg.age_bands[band_idx][1],
                                                     cfg.age_bands[band_idx][2])),
                        today \in Draw("clock", ClockRange),
                        off \in Draw("dob_offset", <<0, 364>>)} :
                     band_idx \in Draw("age_band", NpChoiceRange(bands, cfg.age_band_weights))}

\* _generate_income_level with a dict.get default in place of the subscript.
_generate_income_level_get(age_band) ==
    LET probabilities == IF age_band \in DOMAIN cfg.income_probabilities
                         THEN cfg.income_probabilities[age_band]
                         ELSE <<34, 33, 33>>
        idx == Interval(1, Len(cfg.income_levels))
    IN  IF NpChoiceRaises(idx, probabilities) THEN {Raised("ValueError")}
        ELSE {[income_level |-> cfg.income_levels[income_idx]] :
                income_idx \in Draw("income", NpChoiceRange(idx, probabilities))}

_generate_income_level(age_band) ==
    IF age_band \notin DOMAIN cfg.income_probabilities THEN {Raised("KeyError")}
    ELSE LET probabilities == cfg.income_probabilities[age_band]
             idx == Interval(1, Len(cfg.income_levels))
         IN  IF NpChoiceRaises(idx, probabilities) THEN {Raised("ValueError")}
             ELSE {[income_level |-> cfg.income_levels[income_idx]] :
                     income_idx \in Draw("income", NpChoiceRange(idx, probabilities))}

\* _generate_life_stage that draws the index without the weights p.
_generate_life_stage_unweighted(age_band) ==
    IF age_band \notin DOMAIN cfg.life_stage_probabilities THEN {Raised("KeyError")}
    ELSE {[life_stage |-> cfg.life_stages[life_stage_idx]] :
            life_stage_idx \in Draw("life_stage", Interval(1, Len(cfg.life_stages)))}

_generate_life_stage(age_band) ==
    IF age_band \notin DOMAIN cfg.life_stage_probabilities THEN {Raised("KeyError")}
    ELSE LET probabilities == cfg.life_stage_probabilities[age_band]
             idx == Interval(1, Len(cfg.life_stages))
         IN  IF NpChoiceRaises(idx, probabilities) THEN {Raised("ValueError")}
             ELSE {[life_stage |-> cfg.life_stages[life_stage_idx]] :
                     life_stage_idx \in Draw("life_stage", NpChoiceRange(idx, probabilities))}

\* page_views taken from the Poisson draw as it comes.
PageViewsOf_unfloored(n) == n

\* page_views = max(2, int(np.random.poisson(4.2)))
PageViewsOf(n) == Max(2, n)

\* duration is in tenths of a second; avg_time_per_page is kept as the
\* fraction num / den that the record rounds.
_generate_session_data ==
    LET Result(duration, page_views, is_bounce) ==
            {[duration |-> duration, page_views |-> page_views, is_bounce |-> is_bounce,
              avg_time_per_page |-> IF page_views > 0
                                    THEN [num |-> duration, den |-> page_views]
                                    ELSE [num |-> duration, den |-> 1],
              scroll_depth |-> sd, click_count |-> cc] :
                sd \in IF ~is_bounce THEN Draw("scroll", Interval(35, 100))
                       ELSE Draw("scroll", Interval(15, 50)),
                cc \in IF is_bounce THEN Draw("click", Interval(1, 3))
                       ELSE Draw("click", Interval(3, 20))}
        Branch(u) ==
            IF u < 15
            THEN UNION {Result(10 * d, 1, TRUE) : d \in Draw("duration", Interval(15, 60))}
            ELSE UNION {Result(Max(450, Min(g, 48000)), PageViewsOf(n), FALSE) :
                          g \in Draw("gamma", GammaRange),
                          n \in Draw("page_views", PoissonRange)}
    IN  UNION {Branch(u) : u \in Draw("bounce", RandomRange)}

_generate_utm_data ==
    LET Branch(u) ==
            IF u < 30
            THEN {[utm_source |-> src,
                   utm_medium |-> IF src = "organic" THEN "organic" ELSE "direct",
                   utm_campaign |-> None] :
                    src \in Draw("utm_source", <<"direct", "organic">>)}
            ELSE {[utm_source |-> src, utm_medium |-> med, utm_campaign |-> camp] :
                    src \in Draw("utm_source", cfg.utm_sources),
                    med \in Draw("utm_medium", cfg.utm_mediums),
                    camp \in Draw("utm_campaign",
                                  <<"customer_retention", "loyalty_program", "new_product_launch",
                                    "personalized_offer", "winback_campaign">>)}
    IN  UNION {Branch(u) : u \in Draw("utm_branch", RandomRange)}

\* EngagementOf without the clamp to 0..100.
EngagementOf_unclamped(x) == TruncDiv(x, 10)

\* max(0, min(100, int(x))) of a normal draw x given in tenths
EngagementOf(x) == Max(0, Min(100, TruncDiv(x, 10)))

\* round(b, 3) of a beta draw b given in ten-thousandths, in thousandths
Round3(b) == RoundDiv(b, 10)

_generate_engagement_scores ==
    {[engagement_score |-> EngagementOf(x), churn_score |-> Round3(c),
      conversion_propensity |-> Round3(p)] :
        x \in Draw("normal", NormalRange),
        c \in Draw("beta_churn", BetaRange),
        p \in Draw("beta_conv", BetaRange)}

\* "Default probabilities if combination not found" (line 415)
default_value_probs == <<50, 35, 15>>

\* ValueProbs that never consults purchase_value_matrix.
ValueProbs_always_default(age_band, income_level) == default_value_probs

\* The vector purchase_value is drawn with.
ValueProbs(age_band, income_level) ==
    LET value_key == <<age_band, income_level>>
    IN  IF value_key \in DOMAIN cfg.purchase_value_matrix
        THEN cfg.purchase_value_matrix[value_key]
        ELSE default_value_probs

_generate_purchase_behavior(age_band, income_level, life_stage, locality_type) ==
    IF income_level \notin DOMAIN cfg.purchase_freq_by_income THEN {Raised("KeyError")}
    ELSE IF NpChoiceRaises(cfg.purchase_frequencies, cfg.purchase_freq_by_income[income_level])
    THEN {Raised("ValueError")}
    ELSE IF NpChoiceRaises(cfg.purchase_values, ValueProbs(age_band, income_level))
    THEN {Raised("ValueError")}
    ELSE IF life_stage \notin DOMAIN cfg.brand_loyalty_by_life_stage THEN {Raised("KeyError")}
    ELSE IF NpChoiceRaises(cfg.brand_loyalties, cfg.brand_loyalty_by_life_stage[life_stage])
    THEN {Raised("ValueError")}
    ELSE IF locality_type \notin DOMAIN cfg.channel_by_locality THEN {Raised("KeyError")}
    ELSE IF NpChoiceRaises(cfg.shopping_channels, cfg.channel_by_locality[locality_type])
    THEN {Raised("ValueError")}
    ELSE {[purchase_frequency |-> pf, purchase_value |-> pv, brand_loyalty |-> bl,
           shopping_channel |-> sc] :
            pf \in Draw("purchase_frequency",
                        NpChoiceRange(cfg.purchase_frequencies,
                                      cfg.purchase_freq_by_income[income_level])),
            pv \in Draw("purchase_value",
                        NpChoiceRange(cfg.purchase_values, ValueProbs(age_band, income_level))),
            bl \in Draw("brand_loyalty",
                        NpChoiceRange(cfg.brand_loyalties,
                                      cfg.brand_loyalty_by_life_stage[life_stage])),
            sc \in Draw("shopping_channel",
                        NpChoiceRange(cfg.shopping_channels,
                                      cfg.channel_by_locality[locality_type]))}

\* The vector price_sensitivity is drawn with.
PriceProbs(income_level) ==
    IF income_level = "luxury" THEN <<15, 35, 50>>
    ELSE IF income_level = "mid_tier" THEN <<30, 50, 20>>
    ELSE <<70, 25, 5>>

\* InterestsOf with a label that is not among product_interests.
InterestsOf_typo(life_stage) ==
    IF life_stage = "student" THEN <<"electronics", "fashion", "books_media">>
    ELSE IF life_stage = "young_professional" THEN <<"electronics", "fashion", "health_beauty">>
    ELSE IF life_stage = "parent" THEN <<"home_garden", "health_beauty", "electronics">>
    ELSE IF life_stage = "empty_nester" THEN <<"home_garden", "health_beauty", "sports_outdoor">>
    ELSE <<"home_garden", "health_beauty", "books_media">>

\* The list product_interest is drawn from.
InterestsOf(life_stage) ==
    IF life_stage = "student" THEN <<"electronics", "fashion", "books_media">>
    ELSE IF life_stage = "young_professional" THEN <<"electronics", "fashion", "health_beauty">>
    ELSE IF life_stage = "parent" THEN <<"home_garden", "health_beauty", "electronics">>
    ELSE IF life_stage = "empty_nester" THEN <<"home_garden", "health_beauty", "sports_outdoors">>
    ELSE <<"home_garden", "health_beauty", "books_media">>

\* EngagementBehavior with strict comparisons.
EngagementBehavior_strict(engagement_score) ==
    IF engagement_score > 80 THEN "active_buyer"
    ELSE IF engagement_score > 60 THEN "researcher"
    ELSE IF engagement_score > 40 THEN "browser"
    ELSE "passive"

EngagementBehavior(engagement_score) ==
    IF engagement_score >= 80 THEN "active_buyer"
    ELSE IF engagement_score >= 60 THEN "researcher"
    ELSE IF engagement_score >= 40 THEN "browser"
    ELSE "passive"

_generate_behavioral_traits(engagement_score, income_level, age_band, life_stage) ==
    IF NpChoiceRaises(cfg.price_sensitivities, PriceProbs(income_level))
    THEN {Raised("ValueError")}
    ELSE {[engagement_behavior |-> EngagementBehavior(engagement_score),
           price_sensitivity |-> ps, product_interest |-> pi] :
            ps \in Draw("price_sensitivity",
                        NpChoiceRange(cfg.price_sensitivities, PriceProbs(income_level))),
            pi \in Draw("product_interest", InterestsOf(life_stage))}

page_types ==
    <<"homepage", "product", "category", "search", "cart", "checkout", "account",
      "help", "about", "profile", "orders", "wishlist">>

RECURSIVE EventsUpTo(_)
\* The lists `events` can be after n rounds of the loop of _generate_event_sequence.
EventsUpTo(n) ==
    IF n = 0 THEN {<<>>}
    ELSE {Append(events, [page |-> page, timestamp |-> today * 86400 - back,
                          duration_seconds |-> d]) :
            events \in EventsUpTo(n - 1),
            page \in IF n = 1 THEN Draw("event_page", <<"homepage", "account", "product">>)
                     ELSE Draw("event_page", page_types),
            today \in Draw("clock", ClockRange),
            back \in Draw("event_time", <<0, 3600>>),
            d \in Draw("event_duration", Interval(15, 450))}

\* _generate_event_sequence with the loop running over range(1, page_views).
_generate_event_sequence_one_short(page_views, click_count) ==
    {[event_sequence |-> events] : events \in EventsUpTo(page_views - 1)}

\* json.dumps(events) is kept as the list it serialises.
_generate_event_sequence(page_views, click_count) ==
    {[event_sequence |-> events] : events \in EventsUpTo(page_views)}

\* Lines 490-493 with the extra events drawn from 0..8 instead of 1..8.
EventData_r_from_zero ==
    {[event_count |-> Max(2, loc.page_views + r), last_event |-> today - back] @@ es :
        r \in Draw("event_r", Interval(0, 8)),
        today \in Draw("clock", ClockRange),
        back \in Draw("last_event", <<0, 30>>),
        es \in _generate_event_sequence(loc.page_views, loc.click_count)}

\* Lines 490-493 of the loop body.
EventData ==
    {[event_count |-> Max(2, loc.page_views + r), last_event |-> today - back] @@ es :
        r \in Draw("event_r", Interval(1, 8)),
        today \in Draw("clock", ClockRange),
        back \in Draw("last_event", <<0, 30>>),
        es \in _generate_event_sequence(loc.page_views, loc.click_count)}

ip_ranges ==
    [Australia |-> <<"1.0.0", "14.0.0">>, Japan |-> <<"126.0.0", "133.0.0">>,
     China |-> <<"1.2.0", "14.144.0">>, India |-> <<"1.23.0", "14.96.0">>,
     Singapore |-> <<"8.20.0", "103.10.0">>, Thailand |-> <<"1.46.0", "14.207.0">>,
     Malaysia |-> <<"1.9.0", "14.102.0">>]
    @@ ("South Korea" :> <<"1.201.0", "14.32.0">>)

\* Lines 494-506 of the loop body.
IpAddress(country) ==
    {[ip_address |-> [base_ip |-> b, octet |-> o]] :
        b \in Draw("ip_base", IF country \in DOMAIN ip_ranges
                              THEN ip_ranges[country] ELSE <<"192.168.0">>),
        o \in Draw("ip_octet", Interval(1, 254))}

\* The first `if` of the segment assignment: it assigns, or leaves segment as
\* it was.
BounceRule(segment, is_bounce, engagement_score) ==
    IF is_bounce /\ engagement_score < 30 THEN "low-engagement" ELSE segment

\* Ladder without its final else: segment stays as the first `if` left it.
Ladder_no_else(segment, engagement_score, conversion_propensity, churn_score, event_count) ==
    IF engagement_score > 85 /\ conversion_propensity > 700 THEN "vip"
    ELSE IF engagement_score > 70 THEN "high-engagement"
    ELSE IF churn_score > 700 THEN "at-risk"
    ELSE IF event_count > 10 THEN "loyal"
    ELSE IF engagement_score > 50 THEN "medium-engagement"
    ELSE IF event_count < 3 THEN "new-visitor"
    ELSE IF churn_score < 300 /\ engagement_score > 40 THEN "re-engaged"
    ELSE segment

\* Ladder with every engagement tier ahead of the churn and loyalty rules.
Ladder_tiers_first(segment, engagement_score, conversion_propensity, churn_score, event_count) ==
    IF engagement_score > 85 /\ conversion_propensity > 700 THEN "vip"
    ELSE IF engagement_score > 70 THEN "high-engagement"
    ELSE IF engagement_score > 50 THEN "medium-engagement"
    ELSE IF churn_score > 700 THEN "at-risk"
    ELSE IF event_count > 10 THEN "loyal"
    ELSE IF event_count < 3 THEN "new-visitor"
    ELSE IF churn_score < 300 /\ engagement_score > 40 THEN "re-engaged"
    ELSE "returning"

\* The if / elif / else that follows it (scores in thousandths).
Ladder(segment, engagement_score, conversion_propensity, churn_score, event_count) ==
    IF engagement_score > 85 /\ conversion_propensity > 700 THEN "vip"
    ELSE IF engagement_score > 70 THEN "high-engagement"
    ELSE IF churn_score > 700 THEN "at-risk"
    ELSE IF event_count > 10 THEN "loyal"
    ELSE IF engagement_score > 50 THEN "medium-engagement"
    ELSE IF event_count < 3 THEN "new-visitor"
    ELSE IF churn_score < 300 /\ engagement_score > 40 THEN "re-engaged"
    ELSE "returning"

\* Lines 507-525 of the loop body.
SegmentAssignment ==
    {[segment |-> Ladder(BounceRule(loc.segment, loc.is_bounce, loc.engagement_score),
                         loc.engagement_score, loc.conversion_propensity,
                         loc.churn_score, loc.event_count)]}

\* The fields the sampler fills for a known customer only (the generator of
\* the anonymous variant is not among the sources: spec.md, sections 3, 4.1
\* step 9 and 8).
KnownOnlyFields ==
    {"customer_id", "email", "phone_number", "dob", "age", "age_band",
     "income_level", "life_stage", "purchase_frequency", "purchase_value",
     "brand_loyalty", "shopping_channel", "engagement_behavior",
     "price_sensitivity", "product_interest"}

\* AnonymousRecord that drops the identity and demographic fields only.
AnonymousRecord_keeps_purchase(record) ==
    [f \in DOMAIN record \ {"customer_id", "email", "phone_number", "dob", "age",
                            "age_band", "income_level", "life_stage"} |->
        IF f = "known_flag" THEN FALSE ELSE record[f]]

\* The anonymous variant of a record: the known-only fields are absent.
AnonymousRecord(record) ==
    [f \in DOMAIN record \ KnownOnlyFields |->
        IF f = "known_flag" THEN FALSE ELSE record[f]]

Weekdays ==
    <<"Monday", "Tuesday", "Wednesday", "Thursday", "Friday", "Saturday", "Sunday">>

\* Lines 526-584: the record of the iteration.  session_duration_seconds is
\* int(duration), avg_time_per_page_seconds is round(avg_time_per_page, 1) in
\* tenths, str(dob) is kept as the day it prints.
Records ==
    {[customer_id |-> loc.customer_id,
      known_flag |-> TRUE,
      anon_id |-> <<"KNOWN", u1>>,
      email |-> loc.email,
      phone_number |-> loc.phone_number,
      dob |-> loc.dob,
      age |-> loc.age,
      age_band |-> loc.age_band,
      income_level |-> loc.income_level,
      life_stage |-> loc.life_stage,
      locality_type |-> loc.locality_type,
      purchase_frequency |-> loc.purchase_frequency,
      purchase_value |-> loc.purchase_value,
      brand_loyalty |-> loc.brand_loyalty,
      shopping_channel |-> loc.shopping_channel,
      engagement_behavior |-> loc.engagement_behavior,
      price_sensitivity |-> loc.price_sensitivity,
      product_interest |-> loc.product_interest,
      geo_country |-> loc.country,
      geo_state |-> loc.state,
      geo_city |-> loc.city,
      ip_address |-> loc.ip_address,
      device_type |-> loc.device_type,
      event_count |-> loc.event_count,
      last_event_date |-> loc.last_event,
      segment |-> loc.segment,
      session_id |-> <<"SESS", u2>>,
      session_duration_seconds |-> TruncDiv(loc.duration, 10),
      page_views |-> loc.page_views,
      is_bounce_session |-> loc.is_bounce,
      avg_time_per_page_seconds |-> RoundDiv(loc.avg_time_per_page.num,
                                             loc.avg_time_per_page.den),
      scroll_depth_percent |-> loc.scroll_depth,
      click_count |-> loc.click_count,
      browser_name |-> loc.browser,
      operating_system |-> loc.os,
      screen_resolution |-> loc.screen_res,
      viewport_size |-> loc.viewport,
      timezone |-> loc.timezone,
      utm_source |-> loc.utm_source,
      utm_medium |-> loc.utm_medium,
      utm_campaign |-> loc.utm_campaign,
      engagement_score |-> loc.engagement_score,
      churn_risk_score |-> loc.churn_score,
      conversion_propensity |-> loc.conversion_propensity,
      event_sequence_json |-> loc.event_sequence,
      landing_page |-> lp,
      referrer_domain |-> IF loc.utm_source \notin {"direct", "organic"}
                          THEN loc.utm_source ELSE None,
      local_visit_hour |-> h,
      day_of_week |-> dw,
      is_weekend |-> (we \in {"Saturday", "Sunday"})] :
        u1 \in Draw("uuid", UuidRange),
        u2 \in Draw("uuid", UuidRange),
        lp \in Draw("landing_page", <<"homepage", "product", "account", "category">>),
        h \in Draw("hour", Interval(7, 22)),
        dw \in Draw("day_of_week", Weekdays),
        we \in Draw("is_weekend", Weekdays)}

\* ------------------------------------------------------------- the state

\* The locals before the first iteration assigns them.
InitLoc ==
    [country |-> "", state |-> "", city |-> "", timezone |-> "", locality_type |-> "",
     device_type |-> "", browser |-> "", os |-> "", screen_res |-> "", viewport |-> "",
     customer_id |-> [date |-> 0, random_part |-> 0],
     email |-> [username |-> 0, domain |-> ""],
     phone_number |-> [pattern |-> "", digits |-> <<>>],
     dob |-> 0, age |-> 0, age_band |-> "", income_level |-> "", life_stage |-> "",
     duration |-> 0, page_views |-> 0, is_bounce |-> FALSE,
     avg_time_per_page |-> [num |-> 0, den |-> 1], scroll_depth |-> 0, click_count |-> 0,
     utm_source |-> "", utm_medium |-> "", utm_campaign |-> "",
     engagement_score |-> 0, churn_score |-> 0, conversion_propensity |-> 0,
     purchase_frequency |-> "", purchase_value |-> "", brand_loyalty |-> "",
     shopping_channel |-> "", engagement_behavior |-> "", price_sensitivity |-> "",
     product_interest |-> "", event_count |-> 0, last_event |-> 0,
     event_sequence |-> <<>>, ip_address |-> [base_ip |-> "", octet |-> 0],
     segment |-> "unbound"]

\* One statement of the loop body: the locals it assigns, or the exception
\* that leaves generate_enhanced_dataset.
Call(at, next, outcomes) ==
    /\ pc = at
    /\ \E o \in outcomes :
        IF "exc" \in DOMAIN o
        THEN /\ pc' = "raised"
             /\ err' = o.exc
             /\ UNCHANGED <<loc, defined>>
        ELSE /\ pc' = next
             /\ loc' = [f \in DOMAIN loc |-> IF f \in DOMAIN o THEN o[f] ELSE loc[f]]
             /\ defined' = defined \cup DOMAIN o
             /\ err' = err
    /\ UNCHANGED <<cfg, mode, focus, seed, num_records, i, data, run, prev,
                 csv, up, mgr, script>>

\* for i in range(self.num_records)
LoopNext ==
    /\ pc = "loop"
    /\ i < num_records
    /\ pc' = "geo"
    /\ defined' = {}
    /\ UNCHANGED <<cfg, mode, focus, seed, num_records, i, loc, data, err, run, prev,
                 csv, up, mgr, script>>

GeoData == Call("geo", "device", _generate_geo_data)
DeviceData == Call("device", "customer_id", _generate_device_data)
CustomerId == Call("customer_id", "email", _generate_customer_id)
Email == Call("email", "phone_number", _generate_email(loc.country))
\* The loop body with the call of _generate_age_and_band left out before the
\* demographics that are keyed by its result.
PhoneNumber_skips_age ==
    Call("phone_number", "income_level", _generate_phone_number(loc.country))

PhoneNumber == Call("phone_number", "age", _generate_phone_number(loc.country))
AgeAndBand == Call("age", "income_level", _generate_age_and_band)
IncomeLevel == Call("income_level", "life_stage", _generate_income_level(loc.age_band))
LifeStage == Call("life_stage", "session", _generate_life_stage(loc.age_band))
SessionData == Call("session", "utm", _generate_session_data)
UtmData == Call("utm", "scores", _generate_utm_data)
EngagementScores == Call("scores", "purchase", _generate_engagement_scores)
PurchaseBehavior ==
    Call("purchase", "traits",
         _generate_purchase_behavior(loc.age_band, loc.income_level, loc.life_stage,
                                     loc.locality_type))
BehavioralTraits ==
    Call("traits", "events",
         _generate_behavioral_traits(loc.engagement_score, loc.income_level,
                                     loc.age_band, loc.life_stage))
Events == Call("events", "ip", EventData)
Ip == Call("ip", "segment", IpAddress(loc.country))
Segment == Call("segment", "record", SegmentAssignment)

\* AppendRecord that reuses one dict for every record, so that all entries
\* of data are the record of the latest iteration.
AppendRecord_shared_dict ==
    /\ pc = "record"
    /\ \E record \in Records :
        data' = [k \in 1..(Len(data) + 1) |-> record]
    /\ i' = i + 1
    /\ pc' = "loop"
    /\ UNCHANGED <<cfg, mode, focus, seed, num_records, loc, defined, err, run, prev,
                   csv, up, mgr, script>>

\* record = {...}; data.append(record)
AppendRecord ==
    /\ pc = "record"
    /\ \E record \in Records :
        data' = Append(data, IF mode = "anonymous" THEN AnonymousRecord(record) ELSE record)
    /\ i' = i + 1
    /\ pc' = "loop"
    /\ UNCHANGED <<cfg, mode, focus, seed, num_records, loc, defined, err, run, prev,
                 csv, up, mgr, script>>

\* The loop is over: df = pd.DataFrame(data); self._print_enhanced_summary(df);
\* return df.  The summary subscripts df by column name, and the frame of an
\* empty list has no columns.
Return ==
    /\ pc = "loop"
    /\ i >= num_records
    /\ IF data = <<>>
       THEN pc' = "raised" /\ err' = "KeyError"
       ELSE pc' = "done" /\ err' = err
    /\ UNCHANGED <<cfg, mode, focus, seed, num_records, i, loc, defined, data, run, prev,
                   csv, up, mgr, script>>

\* A second, independent run of the generator with the same seed and
\* configuration: a new process, whose locals and list start afresh.
Rerun ==
    /\ pc = "done"
    /\ run = 1
    /\ run' = 2
    /\ prev' = data
    /\ data' = <<>>
    /\ i' = 0
    /\ loc' = InitLoc
    /\ defined' = {}
    /\ pc' = "loop"
    /\ UNCHANGED <<cfg, mode, focus, seed, num_records, err, csv, up, mgr, script>>

Next ==
    \/ LoopNext \/ GeoData \/ DeviceData \/ CustomerId \/ Email \/ PhoneNumber
    \/ AgeAndBand \/ IncomeLevel \/ LifeStage \/ SessionData \/ UtmData
    \/ EngagementScores \/ PurchaseBehavior \/ BehavioralTraits \/ Events \/ Ip
    \/ Segment \/ AppendRecord \/ Return

NextTwoRuns == Next \/ Rerun

\* ------------------------------------------------- the draw sites explored

\* ------------------------------------------------------------------ main

gen == <<cfg, mode, focus, seed, num_records, i, loc, defined, data, err, run, prev>>

InitUploader ==
    [pc |-> "idle", access_token |-> FALSE, df_len |-> 0, connection |-> None,
     cursor |-> None, batch_start |-> 0, executed |-> <<>>, failed |-> FALSE,
     result |-> None]

batch_size == 300

\* A statement given to cursor.execute; an INSERT carries the rows
\* df.iloc[first:last] of its batch.
Statement(sql, first, last) == [sql |-> sql, first |-> first, last |-> last]

\* upload_enhanced_data up to the first statement: the token test and sql.connect.
UploadCall(n, token) ==
    /\ up.pc = "idle"
    /\ IF ~token
       THEN up' = [InitUploader EXCEPT !.pc = "returned", !.df_len = n, !.result = "False"]
       ELSE \E ok \in BOOLEAN :
              up' = IF ok
                    THEN [InitUploader EXCEPT !.pc = "drop", !.access_token = TRUE,
                                              !.df_len = n, !.connection = "open",
                                              !.cursor = "open"]
                    ELSE [InitUploader EXCEPT !.pc = "returned", !.access_token = TRUE,
                                              !.df_len = n, !.failed = TRUE,
                                              !.result = "False"]

\* cursor.execute(statement) inside the try block: it returns, or it raises
\* and the except clause returns False.
Execute(at, statement, next, start) ==
    /\ up.pc = at
    /\ \E ok \in BOOLEAN :
         up' = IF ok
               THEN [up EXCEPT !.executed = Append(@, statement), !.pc = next,
                               !.batch_start = start]
               ELSE [up EXCEPT !.failed = TRUE, !.result = "False", !.pc = "returned"]
    /\ UNCHANGED <<gen, pc, csv, mgr, script>>

DropTable == Execute("drop", Statement("DROP", 0, 0), "create", 0)

CreateTable == Execute("create", Statement("CREATE", 0, 0), "insert", 0)

\* batch_end = min(batch_start + batch_size, len(df))
BatchEnd_no_min(batch_start, df_len) == batch_start + batch_size

BatchEnd(batch_start, df_len) == Min(batch_start + batch_size, df_len)

\* One iteration of the loop over range(0, len(df), batch_size).
InsertBatch ==
    /\ up.batch_start < up.df_len
    /\ LET batch_end == BatchEnd(up.batch_start, up.df_len)
       IN  IF batch_end > up.batch_start
           THEN Execute("insert", Statement("INSERT", up.batch_start, batch_end),
                        "insert", up.batch_start + batch_size)
           ELSE /\ up.pc = "insert"
                /\ up' = [up EXCEPT !.batch_start = @ + batch_size]
                /\ UNCHANGED <<gen, pc, csv, mgr, script>>

\* After the loop: the COUNT query, cursor.close(), connection.close(),
\* return True.
CountRows ==
    /\ up.pc = "insert"
    /\ up.batch_start >= up.df_len
    /\ \E ok \in BOOLEAN :
         up' = IF ok
               THEN [up EXCEPT !.executed = Append(@, Statement("COUNT", 0, 0)),
                               !.cursor = "closed", !.connection = "closed",
                               !.result = "True", !.pc = "returned"]
               ELSE [up EXCEPT !.failed = TRUE, !.result = "False", !.pc = "returned"]
    /\ UNCHANGED <<gen, pc, csv, mgr, script>>

\* uploader.upload_enhanced_data(df) on an uploader of its own, for a table
\* of any length and with or without TOKEN in the environment.
Upload ==
    /\ \E n \in 0..MaxRows : \E token \in BOOLEAN : UploadCall(n, token)
    /\ UNCHANGED <<gen, pc, csv, mgr, script>>

\* main: df.to_csv(csv_file, index=False)
SaveBackup ==
    /\ pc = "done"
    /\ csv = None
    /\ csv' = data
    /\ pc' = "saved"
    /\ UNCHANGED <<gen, up, mgr, script>>

\* main: uploader = EnhancedDatabricksUploader();
\* success = uploader.upload_enhanced_data(df, "enhanced_known_360")
HandToUploader ==
    /\ pc = "saved"
    /\ \E token \in BOOLEAN : UploadCall(Len(data), token)
    /\ pc' = "uploading"
    /\ UNCHANGED <<gen, csv, mgr, script>>

\* main: return df
MainReturn ==
    /\ pc = "uploading"
    /\ up.pc = "returned"
    /\ pc' = "main_done"
    /\ UNCHANGED <<gen, csv, up, mgr, script>>

NextUpload == Upload \/ DropTable \/ CreateTable \/ InsertBatch \/ CountRows

NextMain ==
    \/ Next \/ SaveBackup \/ HandToUploader \/ MainReturn
    \/ DropTable \/ CreateTable \/ InsertBatch \/ CountRows

\* ------------------------------------------------- DatabricksJDBCManager

\* No script is running.
InitScript == [name |-> None, at |-> None, raised |-> FALSE]

InitManager == [_connection |-> None, calls |-> <<>>]

\* What a finished method call did: the connection attempts it made
\* (jaydebeapi.connect), whether its last attempt failed, the state of the
\* connection object its statement was run on (None when it ran none), and
\* what it returned.
Done(op, attempts, connect_failed, ran_on, result) ==
    [op |-> op, attempts |-> attempts, connect_failed |-> connect_failed,
     ran_on |-> ran_on, result |-> result]

\* The manager m after a call that leaves it with this connection.
Returns(m, connection, call) ==
    [_connection |-> connection, calls |-> Append(m.calls, call)]

\* m.connect(): one attempt; any exception is caught and reported as False.
connect(m) ==
    {Returns(m, IF ok THEN "open" ELSE m._connection,
             Done("connect", 1, ~ok, None, IF ok THEN "True" ELSE "False")) :
        ok \in BOOLEAN}

\* m.disconnect(): closes the connection object when one is held and leaves
\* the attribute bound to it.
disconnect(m) ==
    {Returns(m, IF m._connection = None THEN None ELSE "closed",
             Done("disconnect", 0, FALSE, None, None))}

\* The body shared by execute_query and execute_statement: connect when
\* no connection is held, then run the statement inside try/except.  A
\* closed connection object is still truthy, and using it raises.
ExecuteOn(m, op, success, failure) ==
    {LET attempts == IF m._connection = None THEN 1 ELSE 0
         connection == IF m._connection = None /\ ok THEN "open" ELSE m._connection
     IN  IF connection = None
         THEN Returns(m, None, Done(op, attempts, TRUE, None, failure))
         ELSE Returns(m, connection,
                      Done(op, attempts, FALSE, connection,
                           IF connection = "open" /\ ran THEN success ELSE failure)) :
        ok \in BOOLEAN, ran \in BOOLEAN}

execute_query(m) == ExecuteOn(m, "execute_query", "DataFrame", None)

execute_statement(m) == ExecuteOn(m, "execute_statement", "True", "False")

\* A caller invokes one method on the manager.
Invoke(outcomes) ==
    /\ Len(mgr.calls) < MaxCalls
    /\ \E m \in outcomes : mgr' = m
    /\ UNCHANGED <<gen, pc, csv, up, script>>

NextManager ==
    \/ Invoke(connect(mgr)) \/ Invoke(disconnect(mgr))
    \/ Invoke(execute_query(mgr)) \/ Invoke(execute_statement(mgr))

\* ------------------------------ databricks_jdbc.main, test_connection.py

LastResult(m) == m.calls[Len(m.calls)].result

\* create_sample_data: DROP (its result is not looked at), CREATE, and the
\* INSERT when CREATE succeeded; the manager it leaves returns True exactly
\* when its last statement did.
create_sample_data(m) ==
    UNION {UNION {IF LastResult(m2) = "False" THEN {m2} ELSE execute_statement(m2) :
                    m2 \in execute_statement(m1)} :
             m1 \in execute_statement(m)}

\* analyze_marketing_data: three queries, whatever each returns.
analyze_marketing_data(m) ==
    UNION {UNION {execute_query(m2) : m2 \in execute_query(m1)} : m1 \in execute_query(m)}

\* jdbc_manager = DatabricksJDBCManager(), then the try block is entered.
RunScript ==
    /\ script.name = None
    /\ mgr = InitManager
    /\ \E name \in {"main", "test_connection_and_schema"} :
         script' = [name |-> name, at |-> "connect", raised |-> FALSE]
    /\ UNCHANGED <<gen, pc, csv, up, mgr>>

\* One statement of a try block that calls the manager: the call returns
\* and the script goes on, or an exception is raised in the block and
\* control passes to the finally clause (through the except clause, in
\* test_connection_and_schema).  returns pairs each manager the call can
\* leave with the statement the script goes to.
ScriptStep(names, at, returns) ==
    /\ script.name \in names
    /\ script.at = at
    /\ \/ \E r \in returns :
            /\ mgr' = r[1]
            /\ script' = [script EXCEPT !.at = r[2]]
       \/ /\ mgr' = mgr
          /\ script' = [script EXCEPT !.at = "finally", !.raised = TRUE]
    /\ UNCHANGED <<gen, pc, csv, up>>

\* if not jdbc_manager.connect(): ... return, inside the try block.
ScriptConnect_returns_before_try ==
    ScriptStep({"main", "test_connection_and_schema"}, "connect",
               {<<m, IF LastResult(m) # "True" THEN "exit"
                     ELSE IF script.name = "main" THEN "create" ELSE "query">> :
                  m \in connect(mgr)})

ScriptConnect ==
    ScriptStep({"main", "test_connection_and_schema"}, "connect",
               {<<m, IF LastResult(m) # "True" THEN "finally"
                     ELSE IF script.name = "main" THEN "create" ELSE "query">> :
                  m \in connect(mgr)})

\* main: if jdbc_manager.create_sample_data(): ... else: ...
MainCreate ==
    ScriptStep({"main"}, "create",
               {<<m, IF LastResult(m) = "True" THEN "query" ELSE "finally">> :
                  m \in create_sample_data(mgr)})

\* main: sample_data = jdbc_manager.execute_query(...)
MainQuery ==
    ScriptStep({"main"}, "query", {<<m, "analyze">> : m \in execute_query(mgr)})

\* main: analyses = jdbc_manager.analyze_marketing_data() and the loop that
\* prints them.
MainAnalyze ==
    ScriptStep({"main"}, "analyze",
               {<<m, "finally">> : m \in analyze_marketing_data(mgr)})

\* test_connection_and_schema: tables_df = jdbc_manager.execute_query(...),
\* then return True or return False.
TestQuery ==
    ScriptStep({"test_connection_and_schema"}, "query",
               {<<m, "finally">> : m \in execute_query(mgr)})

\* finally: jdbc_manager.disconnect()
ScriptFinally ==
    /\ script.at = "finally"
    /\ \E m \in disconnect(mgr) : mgr' = m
    /\ script' = [script EXCEPT !.at = "exit"]
    /\ UNCHANGED <<gen, pc, csv, up>>

NextScripts ==
    \/ RunScript \/ ScriptConnect \/ MainCreate \/ MainQuery \/ MainAnalyze
    \/ TestQuery \/ ScriptFinally

FocusGeo == {"country", "city", "state", "locality", "email_domain", "ip_base"}
FocusDevice == {"device_type", "browser", "os", "screen", "viewport"}
FocusPurchase ==
    {"age_band", "income", "life_stage", "purchase_frequency", "purchase_value",
     "brand_loyalty", "shopping_channel"}
FocusTraits ==
    {"age_band", "income", "life_stage", "normal", "price_sensitivity", "product_interest"}
FocusUtm == {"utm_branch", "utm_source", "utm_medium", "utm_campaign"}
FocusScores == {"normal", "beta_churn", "beta_conv"}
FocusSegment == {"bounce", "page_views", "event_r", "normal", "beta_churn", "beta_conv"}
FocusEnvironment == {"uuid", "clock"}

\* The generator as constructed, before generate_enhanced_dataset runs.
Start(c, m, f, n) ==
    /\ cfg = c
    /\ mode = m
    /\ focus \in f
    /\ seed \in 0..MaxSeed
    /\ num_records = n
    /\ i = 0
    /\ pc = "loop"
    /\ loc = InitLoc
    /\ defined = {}
    /\ data = <<>>
    /\ err = "none"
    /\ run = 1
    /\ prev = <<>>
    /\ csv = None
    /\ up = InitUploader
    /\ mgr = InitManager
    /\ script = InitScript

Init ==
    Start(ShippedConfig, "known",
          {FocusGeo, FocusDevice, FocusPurchase, FocusTraits, FocusUtm}, 1)
Spec == Init /\ [][Next]_vars

InitSegment == Start(ShippedConfig, "known", {FocusSegment}, 1)
SpecSegment == InitSegment /\ [][Next]_vars

InitScores == Start(ShippedConfig, "known", {FocusScores}, 1)
SpecScores == InitScores /\ [][Next]_vars

\* ------------------------------------------- the other configurations

FocusSynthetic == {"country", "age_band", "income", "life_stage", "purchase_value"}

Without(f, k) == [x \in DOMAIN f \ {k} |-> f[x]]

\* The shipped configuration with the pair (18-24, budget_conscious) removed
\* from purchase_value_matrix.
LackingPair ==
    [ShippedConfig EXCEPT
        !.purchase_value_matrix = Without(@, <<"18-24", "budget_conscious">>)]

\* The shipped configuration with a country that email_domains, the phone
\* patterns and the ip ranges do not know.
ExtraCountry ==
    [ShippedConfig EXCEPT
        !.apj_countries =
            @ @@ ("New Zealand" :> Country(4, <<"Auckland">>, <<"Auckland">>, "NZDT"))]

\* Configurations a caller can give the generator by setting its attributes
\* after construction: the shipped one, and the shipped one with one table
\* short of a key or one weight vector short of 1.
SyntheticConfigs ==
    {ShippedConfig, LackingPair, ExtraCountry,
     [ShippedConfig EXCEPT !.income_probabilities = Without(@, "25-34")],
     [ShippedConfig EXCEPT !.life_stage_probabilities = Without(@, "25-34")],
     [ShippedConfig EXCEPT !.purchase_freq_by_income = Without(@, "mid_tier")],
     [ShippedConfig EXCEPT !.brand_loyalty_by_life_stage = Without(@, "parent")],
     [ShippedConfig EXCEPT !.channel_by_locality = Without(@, "metro")],
     [ShippedConfig EXCEPT !.email_domains = Without(@, "Japan")],
     [ShippedConfig EXCEPT !.age_band_weights = <<28, 32, 18, 12, 7, 2>>],
     [ShippedConfig EXCEPT !.life_stage_probabilities["65+"] = <<0, 5, 5, 20, 71>>]}

InitSynthetic ==
    \E c \in SyntheticConfigs : Start(c, "known", {FocusSynthetic}, 1)
SpecSynthetic == InitSynthetic /\ [][Next]_vars

InitAnonymous == Start(ShippedConfig, "anonymous", {FocusPurchase}, 1)
SpecAnonymous == InitAnonymous /\ [][Next]_vars

InitTwoRuns == Start(ShippedConfig, "known", {FocusEnvironment}, 1)
SpecTwoRuns == InitTwoRuns /\ [][NextTwoRuns]_vars

\* ------------------------------------------------------------- the claims

\* Runs of any length up to MaxRecords, over the draws of city and state.
FocusCity == {"city", "state"}
InitLoop ==
    \E n \in 0..MaxRecords : Start(ShippedConfig, "known", {FocusCity}, n)
SpecLoop == InitLoop /\ [][Next]_vars

\* The local variables the statement at a position of the loop body reads.
Reads(at) ==
    CASE at \in {"email", "phone_number", "ip"} -> {"country"}
      [] at \in {"income_level", "life_stage"} -> {"age_band"}
      [] at = "purchase" -> {"age_band", "income_level", "life_stage", "locality_type"}
      [] at = "traits" -> {"engagement_score", "income_level", "age_band", "life_stage"}
      [] at = "events" -> {"page_views", "click_count"}
      [] at = "segment" -> {"is_bounce", "engagement_score", "conversion_propensity",
                            "churn_score", "event_count"}
      [] at = "record" -> DOMAIN InitLoc
      [] OTHER -> {}

\* The generator followed by the rest of main: the backup and the upload.
InitMain == \E n \in 0..MaxRecords : Start(ShippedConfig, "known", {FocusCity}, n)
SpecMain == InitMain /\ [][NextMain]_vars

\* upload_enhanced_data on its own.
InitUpload == Start(ShippedConfig, "known", {{}}, 1)
SpecUpload == InitUpload /\ [][NextUpload]_vars

\* A DatabricksJDBCManager on its own.
SpecManager == InitUpload /\ [][NextManager]_vars

\* The draws of _generate_session_data.
FocusSession == {"bounce", "duration", "gamma", "page_views"}
FocusClicks == {"bounce", "scroll", "click"}
InitSession == Start(ShippedConfig, "known", {FocusSession, FocusClicks}, 1)
SpecSession == InitSession /\ [][Next]_vars

\* The draws of _generate_age_and_band.
FocusAge == {"age_band", "age", "dob_offset"}
InitAge == Start(ShippedConfig, "known", {FocusAge}, 1)
SpecAge == InitAge /\ [][Next]_vars

\* The two scripts that drive a manager from construction to exit.
SpecScripts == InitUpload /\ [][NextScripts]_vars

\* The two weekday draws that close the record (lines 582 and 583).
FocusCalendar == {"day_of_week", "is_weekend", "hour", "landing_page"}
InitCalendar == Start(ShippedConfig, "known", {FocusCalendar}, 1)
SpecCalendar == InitCalendar /\ [][Next]_vars

\* The draws of the event sequence and of the event count.
FocusEvents == {"bounce", "page_views", "event_page"}
FocusEventCount == {"bounce", "page_views", "event_r"}
InitEvents == Start(ShippedConfig, "known", {FocusEvents, FocusEventCount}, 1)
SpecEvents == InitEvents /\ [][Next]_vars

\* The records generate_enhanced_dataset has produced so far.
Produced == {data[k] : k \in 1..Len(data)}

\* C1: in every record produced with the shipped configuration each
\* categorical field other than segment holds a value of its declared set:
\* device_type one of mobile, desktop, tablet; browser_name and
\* operating_system among the candidates of devices[device_type]; and
\* locality_type, income_level, life_stage, the four purchase fields, the three
\* behavioral traits, utm_source and utm_medium in their lists.
C1_CategoricalFieldsInDomain ==
    \A r \in Produced :
        /\ r.device_type \in {"mobile", "desktop", "tablet"}
        /\ r.browser_name \in Range(devices[r.device_type].browsers)
        /\ r.operating_system \in Range(devices[r.device_type].os)
        /\ r.locality_type \in Range(locality_types)
        /\ r.income_level \in Range(income_levels)
        /\ r.life_stage \in Range(life_stages)
        /\ r.purchase_frequency \in Range(purchase_frequencies)
        /\ r.purchase_value \in Range(purchase_values)
        /\ r.brand_loyalty \in Range(brand_loyalties)
        /\ r.shopping_channel \in Range(shopping_channels)
        /\ r.engagement_behavior \in Range(engagement_behaviors)
        /\ r.price_sensitivity \in Range(price_sensitivities)
        /\ r.product_interest \in Range(product_interests)
        /\ r.utm_source \in Range(utm_sources)
        /\ r.utm_medium \in Range(utm_mediums)

\* A record of an empty nester with engagement of 80 or more whose interest
\* is the last of the three listed for that life stage.
C1_Witness ==
    \E r \in Produced :
        /\ r.life_stage = "empty_nester"
        /\ r.product_interest = "sports_outdoors"
        /\ r.engagement_behavior = "active_buyer"

\* C2: the segment of every record produced is a member of self.segments.
C2_SegmentInDeclaredSet ==
    \A r \in Produced : r.segment \in Range(cfg.segments)

\* C3: in every record engagement_score is an integer of 0..100 and
\* churn_risk_score and conversion_propensity, rounded to three decimals, lie
\* in 0.0..1.0 (0..1000 thousandths), whatever the normal and beta draws were.
C3_ScoresInRange ==
    /\ \A r \in Produced :
        /\ r.engagement_score \in 0..100
        /\ r.churn_risk_score \in 0..1000
        /\ r.conversion_propensity \in 0..1000
    /\ "engagement_score" \in defined =>
        /\ loc.engagement_score \in 0..100
        /\ loc.churn_score \in 0..1000
        /\ loc.conversion_propensity \in 0..1000

\* A record whose normal draw was clamped at 100 and whose beta draws rounded
\* to 1.0 and to 0.301.
C3_Witness ==
    \E r \in Produced :
        /\ r.engagement_score = 100
        /\ r.churn_risk_score = 1000
        /\ r.conversion_propensity = 301

\* True of a record the first `if` of the segment assignment applies to.
BounceLowEngagement(r) == r.is_bounce_session /\ r.engagement_score < 30

\* C7: the label 'low-engagement' of the first condition is always
\* overwritten: the segment of every record is the result of the if / elif /
\* else ladder alone, whatever the first condition set, and never
\* 'low-engagement'.
C7_LadderOverwritesBounceRule ==
    \A r \in Produced :
        /\ r.segment # "low-engagement"
        /\ \A before \in {"unbound", "low-engagement"} :
            r.segment = Ladder(before, r.engagement_score, r.conversion_propensity,
                               r.churn_risk_score, r.event_count)

\* A bounce with engagement below 30, labelled by the ladder's last branches.
C7_Witness ==
    \E r \in Produced : BounceLowEngagement(r) /\ r.segment = "new-visitor"

\* The label by the priority order claimed: bounce with low engagement, the
\* engagement tiers, churn, loyalty, new visitor, re-engaged, 'returning'.
ClaimedLabel(r) ==
    IF BounceLowEngagement(r) THEN "low-engagement"
    ELSE IF r.engagement_score > 85 /\ r.conversion_propensity > 700 THEN "vip"
    ELSE IF r.engagement_score > 70 THEN "high-engagement"
    ELSE IF r.engagement_score > 50 THEN "medium-engagement"
    ELSE IF r.churn_risk_score > 700 THEN "at-risk"
    ELSE IF r.event_count > 10 THEN "loyal"
    ELSE IF r.event_count < 3 THEN "new-visitor"
    ELSE IF r.churn_risk_score < 300 /\ r.engagement_score > 40 THEN "re-engaged"
    ELSE "returning"

\* C8 as claimed: the segment is the label of the first matching rule in
\* the claimed order, so no record that meets an engagement-tier condition is
\* labelled by the churn or the loyalty rule.
C8_ClaimedPriorityOrder ==
    \A r \in Produced :
        /\ r.segment = ClaimedLabel(r)
        /\ r.engagement_score > 50 => r.segment \notin {"at-risk", "loyal"}

\* C8 as amended: the bounce rule decides no label; the label is that of
\* the first matching rule in the order vip, high-engagement, at-risk, loyal,
\* medium-engagement, new-visitor, re-engaged, 'returning'.  The vip and
\* high-engagement tiers come before churn and loyalty, the medium tier after
\* both.
C8_PriorityOrder ==
    \A r \in Produced :
        LET e == r.engagement_score
            c == r.conversion_propensity
            ch == r.churn_risk_score
            ev == r.event_count
        IN  /\ r.segment # "low-engagement"
            /\ r.segment = "vip" <=> (e > 85 /\ c > 700)
            /\ r.segment = "high-engagement" <=> (e > 70 /\ ~(e > 85 /\ c > 700))
            /\ r.segment = "at-risk" <=> (e <= 70 /\ ch > 700)
            /\ r.segment = "loyal" <=> (e <= 70 /\ ch <= 700 /\ ev > 10)
            /\ r.segment = "medium-engagement" <=>
                   (e > 50 /\ e <= 70 /\ ch <= 700 /\ ev <= 10)
            /\ r.segment = "new-visitor" <=> (e <= 50 /\ ch <= 700 /\ ev < 3)
            /\ r.segment = "re-engaged" <=>
                   (e > 40 /\ e <= 50 /\ ch < 300 /\ ev >= 3 /\ ev <= 10)
            /\ r.segment = "returning" <=>
                   (e <= 50 /\ ch <= 700 /\ ev >= 3 /\ ev <= 10 /\ ~(ch < 300 /\ e > 40))

\* A record that meets the medium engagement tier and is labelled by the
\* churn rule, and so is one labelled by the loyalty rule.
C8_Witness ==
    \E r \in Produced :
        /\ r.engagement_score > 50
        /\ r.engagement_score <= 70
        /\ r.churn_risk_score > 700
        /\ r.segment = "at-risk"

\* C4: in anonymous mode no produced record carries an identity, demographic
\* or purchase-behaviour field: email, phone_number, dob, age, income_level,
\* life_stage, purchase_frequency, purchase_value, brand_loyalty and
\* shopping_channel are all absent.
C4_AnonymousOmitsKnownOnly ==
    mode = "anonymous" =>
        \A r \in Produced :
            DOMAIN r \cap {"email", "phone_number", "dob", "age", "income_level",
                           "life_stage", "purchase_frequency", "purchase_value",
                           "brand_loyalty", "shopping_channel"} = {}

\* An anonymous record has been produced for a visitor the pipeline had drawn
\* as a luxury, high-value, high-frequency buyer.
C4_Witness ==
    /\ mode = "anonymous"
    /\ pc = "done"
    /\ Len(data) = 1
    /\ data[1].known_flag = FALSE
    /\ loc.income_level = "luxury"
    /\ loc.purchase_value = "high_value"
    /\ loc.purchase_frequency = "high_frequency"

\* C5: purchase_value is drawn with the weights purchase_value_matrix holds
\* for the pair (age_band, income_level), and with the weights 0.5, 0.35, 0.15
\* when the matrix has no such pair; a missing pair raises no error.
C5_PurchaseValueDefault ==
    /\ "purchase_value" \in defined =>
          LET value_key == <<loc.age_band, loc.income_level>>
              w == IF value_key \in DOMAIN cfg.purchase_value_matrix
                   THEN cfg.purchase_value_matrix[value_key]
                   ELSE <<50, 35, 15>>
          IN  \E k \in 1..3 : w[k] > 0 /\ loc.purchase_value = cfg.purchase_values[k]
    /\ cfg = LackingPair => err = "none"

\* The pair (18-24, budget_conscious) is missing from the matrix and the
\* record got high_value, which the shipped weights of that pair rule out.
C5_Witness ==
    /\ cfg = LackingPair
    /\ \E r \in Produced :
          /\ r.age_band = "18-24"
          /\ r.income_level = "budget_conscious"
          /\ r.purchase_value = "high_value"

\* C6: two runs with the same seed and the same parameters produce the same
\* records.
C6_SameSeedSameRecords ==
    (run = 2 /\ pc = "done") => data = prev

\* The tables whose lookup is a plain subscript in the code.
SubscriptedKeysPresent(r) ==
    /\ r.age_band \in DOMAIN cfg.income_probabilities
    /\ r.age_band \in DOMAIN cfg.life_stage_probabilities
    /\ r.income_level \in DOMAIN cfg.purchase_freq_by_income
    /\ r.life_stage \in DOMAIN cfg.brand_loyalty_by_life_stage
    /\ r.locality_type \in DOMAIN cfg.channel_by_locality

\* The weight vectors configured for the draws behind record r sum to 1.
WeightsSumToOne(r) ==
    /\ SumSeq(cfg.age_band_weights) = 100
    /\ SumSeq(cfg.income_probabilities[r.age_band]) = 100
    /\ SumSeq(cfg.life_stage_probabilities[r.age_band]) = 100
    /\ SumSeq(cfg.purchase_freq_by_income[r.income_level]) = 100
    /\ SumSeq(cfg.brand_loyalty_by_life_stage[r.life_stage]) = 100
    /\ SumSeq(cfg.channel_by_locality[r.locality_type]) = 100

\* C9 as stated: apart from the purchase_value default, no record is ever
\* built from a substituted value, so the country of every record is a key of
\* email_domains, of the phone patterns and of the ip ranges, and every other
\* table held the key that was looked up.
C9_NoOtherSubstitute ==
    \A r \in Produced :
        /\ SubscriptedKeysPresent(r)
        /\ r.geo_country \in DOMAIN cfg.email_domains
        /\ r.geo_country \in DOMAIN phone_patterns
        /\ r.geo_country \in DOMAIN ip_ranges

\* C9: a key missing from income_probabilities, life_stage_probabilities,
\* purchase_freq_by_income, brand_loyalty_by_life_stage or channel_by_locality,
\* or a weight vector that does not sum to 1, raises KeyError or ValueError
\* before the record is appended, and the run produces nothing further.
C9_FailFast ==
    /\ \A r \in Produced : SubscriptedKeysPresent(r) /\ WeightsSumToOne(r)
    /\ pc = "raised" => err \in {"KeyError", "ValueError"} /\ Len(data) = i

\* income_probabilities has no row for the drawn age band and the run has
\* stopped on KeyError with no record.
C9_Witness ==
    /\ pc = "raised"
    /\ err = "KeyError"
    /\ loc.age_band \notin DOMAIN cfg.income_probabilities
    /\ data = <<>>

\* A probability vector for the categories a.
WellFormed(p, a) ==
    /\ Len(p) = Len(a)
    /\ \A k \in 1..Len(p) : p[k] >= 0
    /\ SumSeq(p) = 100

\* C10: every weight vector of the shipped configuration, and every row of
\* every conditional table, has one non-negative weight per category and sums
\* to 1, and the tables have a row for every value that can select one.
C10_ShippedWeightsSumToOne ==
    /\ WellFormed(cfg.age_band_weights, cfg.age_bands)
    /\ WellFormed(cfg.locality_weights, cfg.locality_types)
    /\ WellFormed(device_weights, device_types)
    /\ WellFormed(default_value_probs, cfg.purchase_values)
    /\ \A k \in 1..Len(cfg.age_bands) :
          LET band == cfg.age_bands[k][3]
          IN  /\ WellFormed(cfg.income_probabilities[band], cfg.income_levels)
              /\ WellFormed(cfg.life_stage_probabilities[band], cfg.life_stages)
              /\ \A inc \in Range(cfg.income_levels) :
                    WellFormed(cfg.purchase_value_matrix[<<band, inc>>],
                               cfg.purchase_values)
    /\ \A inc \in Range(cfg.income_levels) :
          /\ WellFormed(cfg.purchase_freq_by_income[inc], cfg.purchase_frequencies)
          /\ WellFormed(PriceProbs(inc), cfg.price_sensitivities)
    /\ \A ls \in Range(cfg.life_stages) :
          WellFormed(cfg.brand_loyalty_by_life_stage[ls], cfg.brand_loyalties)
    /\ \A lt \in Range(cfg.locality_types) :
          WellFormed(cfg.channel_by_locality[lt], cfg.shopping_channels)

\* A record has been drawn from the last age band, the last income level and
\* the last purchase value, each the tail of its weight vector.
C10_Witness ==
    \E r \in Produced :
        /\ r.age_band = "65+"
        /\ r.income_level = "luxury"
        /\ r.purchase_value = "high_value"

\* C11 as stated: geo_city, geo_state and timezone are determined by
\* geo_country, so two records of the same country agree on all three.
C11_CountryDeterminesCityState ==
    \A r1 \in Produced : \A r2 \in Produced :
        r1.geo_country = r2.geo_country =>
            /\ r1.geo_city = r2.geo_city
            /\ r1.geo_state = r2.geo_state
            /\ r1.timezone = r2.timezone

\* C11: timezone is determined by geo_country (it is the timezone of the
\* country's entry), while geo_city and geo_state are each some member of
\* that country's cities and states lists.
C11_CountryDeterminesTimezone ==
    \A r \in Produced :
        LET country_data == cfg.apj_countries[r.geo_country]
        IN  /\ r.timezone = country_data.timezone
            /\ r.geo_city \in Range(country_data.cities)
            /\ r.geo_state \in Range(country_data.states)

\* Two records of one run share the country and the timezone and differ in
\* city and in state.
C11_Witness ==
    /\ Len(data) >= 2
    /\ data[1].geo_country = data[2].geo_country
    /\ data[1].timezone = data[2].timezone
    /\ data[1].geo_city # data[2].geo_city
    /\ data[1].geo_state # data[2].geo_state

\* C12: within one iteration every statement reads only variables the
\* iteration has already assigned; geography is derived before device, device
\* before demographics, demographics before session behaviour, session
\* behaviour before the scores and the scores before segment; and segment is
\* bound whenever the record is assembled.
C12_NoReadBeforeDerived ==
    /\ Reads(pc) \subseteq defined
    /\ "device_type" \in defined => "country" \in defined
    /\ "age_band" \in defined => "device_type" \in defined
    /\ "income_level" \in defined => "age_band" \in defined
    /\ "duration" \in defined => {"income_level", "life_stage"} \subseteq defined
    /\ "engagement_score" \in defined => "duration" \in defined
    /\ "segment" \in defined => "engagement_score" \in defined
    /\ pc = "record" => "segment" \in defined /\ loc.segment # "unbound"

\* The record is about to be assembled after the ladder fell through to its
\* else branch, which labels a bounce of low engagement 'returning'.
C12_Witness ==
    /\ pc = "record"
    /\ defined = DOMAIN InitLoc
    /\ loc.is_bounce
    /\ loc.engagement_score < 30
    /\ loc.segment = "returning"

\* C13: the manager retries: a call of connect, execute_query or
\* execute_statement whose connection attempt failed has made at least a
\* second attempt before it reported the failure.
C13_ConnectionAutoRetry ==
    \A k \in 1..Len(mgr.calls) :
        mgr.calls[k].connect_failed => mgr.calls[k].attempts >= 2

\* C14: a bounce has a duration of 15..60 seconds, one page view, scroll
\* depth 15..50 and 1..3 clicks; any other session has a duration of
\* 45..4800 seconds, at least two page views, scroll depth 35..100 and 3..20
\* clicks; page_views is never below 1, so the average time per page divides
\* by a positive number, and is_bounce holds exactly when page_views = 1.
\* Durations are in tenths of a second.
C14_SessionBranches ==
    "duration" \in defined =>
        /\ loc.is_bounce =>
              /\ loc.duration \in 150..600
              /\ loc.page_views = 1
              /\ loc.scroll_depth \in 15..50
              /\ loc.click_count \in 1..3
        /\ ~loc.is_bounce =>
              /\ loc.duration \in 450..48000
              /\ loc.page_views >= 2
              /\ loc.scroll_depth \in 35..100
              /\ loc.click_count \in 3..20
        /\ loc.page_views >= 1
        /\ loc.avg_time_per_page = [num |-> loc.duration, den |-> loc.page_views]
        /\ loc.is_bounce <=> loc.page_views = 1

\* A session that is no bounce, at the upper clip of the duration and at the
\* floor of the page views.
C14_Witness ==
    /\ "duration" \in defined
    /\ ~loc.is_bounce
    /\ loc.duration = 48000
    /\ loc.page_views = 2

\* The step function C15 states.
ClaimedBehavior(score) ==
    CASE score >= 80 -> "active_buyer"
      [] score \in 60..79 -> "researcher"
      [] score \in 40..59 -> "browser"
      [] score < 40 -> "passive"

\* C15: engagement_behavior is active_buyer for a score of 80 or more,
\* researcher for 60..79, browser for 40..59 and passive below 40, for every
\* integer score 0..100 and whatever the income level, age band and life
\* stage of the record are.
C15_BehaviorStepFunction ==
    /\ \A score \in 0..100 : EngagementBehavior(score) = ClaimedBehavior(score)
    /\ "engagement_behavior" \in defined =>
          loc.engagement_behavior = ClaimedBehavior(loc.engagement_score)
    /\ \A r \in Produced : r.engagement_behavior = ClaimedBehavior(r.engagement_score)

\* A luxury retiree's record at the lowest score that makes a researcher.
C15_Witness ==
    \E r \in Produced :
        /\ r.engagement_score = 60
        /\ r.engagement_behavior = "researcher"
        /\ r.income_level = "luxury"
        /\ r.life_stage = "retiree"

\* The weight the vector p gives to the category x of the list a.
WeightOf(a, p, x) == SumSeq([k \in 1..Len(a) |-> IF a[k] = x THEN p[k] ELSE 0])

\* C16: a conditional draw yields only outcomes to which the vector of the
\* conditioning key gives a non-zero weight: income_level and life_stage for
\* the record's age_band, purchase_frequency for its income_level,
\* purchase_value for its pair, brand_loyalty for its life_stage and
\* shopping_channel for its locality_type; so retiree occurs only with 55-64
\* and 65+, empty_nester never with 18-24 or 25-34, student never with 45-54
\* or older, high_value never with (18-24, budget_conscious); and
\* product_interest is one of the three interests listed for the life_stage.
C16_OnlyPossibleOutcomes ==
    \A r \in Produced :
        /\ WeightOf(cfg.income_levels, cfg.income_probabilities[r.age_band],
                    r.income_level) > 0
        /\ WeightOf(cfg.life_stages, cfg.life_stage_probabilities[r.age_band],
                    r.life_stage) > 0
        /\ WeightOf(cfg.purchase_frequencies,
                    cfg.purchase_freq_by_income[r.income_level],
                    r.purchase_frequency) > 0
        /\ WeightOf(cfg.purchase_values,
                    cfg.purchase_value_matrix[<<r.age_band, r.income_level>>],
                    r.purchase_value) > 0
        /\ WeightOf(cfg.brand_loyalties, cfg.brand_loyalty_by_life_stage[r.life_stage],
                    r.brand_loyalty) > 0
        /\ WeightOf(cfg.shopping_channels, cfg.channel_by_locality[r.locality_type],
                    r.shopping_channel) > 0
        /\ r.life_stage = "retiree" => r.age_band \in {"55-64", "65+"}
        /\ r.life_stage = "empty_nester" => r.age_band \notin {"18-24", "25-34"}
        /\ r.life_stage = "student" => r.age_band \in {"18-24", "25-34", "35-44"}
        /\ (r.age_band = "18-24" /\ r.income_level = "budget_conscious") =>
              r.purchase_value # "high_value"
        /\ r.product_interest \in
              CASE r.life_stage = "student" -> {"electronics", "fashion", "books_media"}
                [] r.life_stage = "young_professional" ->
                      {"electronics", "fashion", "health_beauty"}
                [] r.life_stage = "parent" -> {"home_garden", "health_beauty", "electronics"}
                [] r.life_stage = "empty_nester" ->
                      {"home_garden", "health_beauty", "sports_outdoors"}
                [] OTHER -> {"home_garden", "health_beauty", "books_media"}

\* A record of the rarest allowed combination: an empty nester aged 35-44.
C16_Witness ==
    \E r \in Produced :
        /\ r.age_band = "35-44"
        /\ r.life_stage = "empty_nester"
        /\ r.product_interest = "home_garden"

\* C17: age lies within the bounds of the band whose label is age_band, so
\* it is in 18..99, and no other band contains it.
C17_AgeWithinBand ==
    "age" \in defined =>
        /\ \E k \in 1..Len(cfg.age_bands) :
              /\ cfg.age_bands[k][3] = loc.age_band
              /\ loc.age \in cfg.age_bands[k][1]..cfg.age_bands[k][2]
        /\ loc.age \in 18..99
        /\ \A k \in 1..Len(cfg.age_bands) :
              loc.age \in cfg.age_bands[k][1]..cfg.age_bands[k][2] =>
                  cfg.age_bands[k][3] = loc.age_band

\* A record of the oldest customer the last band allows.
C17_Witness ==
    \E r \in Produced : r.age = 99 /\ r.age_band = "65+"

\* C18: for every num_records >= 0, 0 included, generate_enhanced_dataset
\* ends without an error after exactly num_records iterations and returns
\* exactly num_records records, which main writes to the backup and hands to
\* the uploader.
C18_ExactlyNRecords ==
    /\ err = "none"
    /\ pc \in {"done", "saved", "uploading", "main_done"} =>
          i = num_records /\ Len(data) = num_records
    /\ pc \in {"saved", "uploading", "main_done"} => csv = data
    /\ pc \in {"uploading", "main_done"} => up.df_len = Len(data)

\* C19: no step of generate_enhanced_dataset changes the configuration or
\* num_records, and no step changes a record that is already in the result.
C19_ConfigAndRecordsUnchanged ==
    [][/\ cfg' = cfg
       /\ cfg = ShippedConfig
       /\ num_records' = num_records
       /\ Len(data') >= Len(data)
       /\ \A k \in 1..Len(data) : data'[k] = data[k]]_vars

\* Two iterations are over and the second record differs from the first.
C19_Witness ==
    /\ pc = "done"
    /\ num_records = 2
    /\ Len(data) = 2
    /\ data[1].geo_city # data[2].geo_city
    /\ cfg = ShippedConfig

\* ceil(n / 300), stated without the code's arithmetic.
CeilBatches(n) == CHOOSE m \in 0..n : m * 300 >= n /\ (m = 0 \/ (m - 1) * 300 < n)

\* C20: a call of upload_enhanced_data that has a token and in which no
\* statement fails returns True after executing, in this order, DROP, CREATE,
\* ceil(len(df) / 300) INSERT statements and COUNT; the k-th INSERT carries
\* the rows (k-1)*300 .. min(k*300, len(df)) - 1, so the batches are
\* consecutive, none is empty or longer than 300 rows, and together they are
\* the rows of df, each once and in order.
C20_BatchedUpload ==
    /\ up.result = "True" => up.access_token /\ ~up.failed /\ up.pc = "returned"
    /\ (up.pc = "returned" /\ up.access_token /\ ~up.failed) =>
          LET e == up.executed
              n == up.df_len
              batches == CeilBatches(n)
          IN  /\ up.result = "True"
              /\ Len(e) = batches + 3
              /\ e[1].sql = "DROP"
              /\ e[2].sql = "CREATE"
              /\ e[Len(e)].sql = "COUNT"
              /\ \A k \in 1..batches :
                    /\ e[k + 2].sql = "INSERT"
                    /\ e[k + 2].first = (k - 1) * 300
                    /\ e[k + 2].last = IF k * 300 < n THEN k * 300 ELSE n
                    /\ e[k + 2].last - e[k + 2].first \in 1..300
    /\ \A k \in 1..Len(up.executed) :
          up.executed[k].sql = "COUNT" => k = Len(up.executed) /\ up.pc = "returned"

\* A table of 601 rows has been uploaded in three batches, the last of one
\* row.
C20_Witness ==
    /\ up.pc = "returned"
    /\ up.result = "True"
    /\ up.df_len = 601
    /\ Len(up.executed) = 6
    /\ up.executed[5] = Statement("INSERT", 600, 601)

\* The calls of disconnect() made so far.
Disconnects == {k \in 1..Len(mgr.calls) : mgr.calls[k].op = "disconnect"}

\* C21: in main and in test_connection_and_schema, disconnect() has been
\* called exactly once when the script is left, on every path, it is the
\* last call made on the manager, and it is not called before the finally
\* clause.
C21_DisconnectExactlyOnce ==
    script.name # None =>
        /\ script.at = "exit" => Disconnects = {Len(mgr.calls)}
        /\ script.at # "exit" => Disconnects = {}

\* main is left after an exception was raised in the try block once the
\* sample data had been created and queried.
C21_Witness ==
    /\ script.name = "main"
    /\ script.at = "exit"
    /\ script.raised
    /\ Len(mgr.calls) = 6
    /\ mgr.calls[5].result = "DataFrame"
    /\ mgr.calls[6].op = "disconnect"

\* C22: in every generated record, is_weekend is true exactly when
\* day_of_week is Saturday or Sunday.
C22_WeekendMatchesDay ==
    \A r \in Produced : r.is_weekend <=> r.day_of_week \in {"Saturday", "Sunday"}

\* C23: utm_source is 'direct' or 'organic' exactly when the record is
\* unsourced (then utm_campaign is null and utm_medium equals utm_source),
\* and referrer_domain is null exactly when utm_source is 'direct' or
\* 'organic' and equals utm_source otherwise.
C23_UnsourcedExactlyDirectOrganic ==
    \A r \in Produced :
        /\ r.utm_source \in {"direct", "organic"} =>
              r.utm_campaign = None /\ r.utm_medium = r.utm_source
        /\ r.referrer_domain = None <=> r.utm_source \in {"direct", "organic"}
        /\ r.utm_source \notin {"direct", "organic"} => r.referrer_domain = r.utm_source

\* C24: a record is labelled 'new-visitor' only if it is a bounce session
\* with page_views = 1 and event_count = 2 (and engagement_score <= 50,
\* churn_score <= 0.7); every record that is not a bounce has
\* event_count >= 3 and is never labelled 'new-visitor'; a record is
\* labelled 're-engaged' only if 41 <= engagement_score <= 50 and
\* 3 <= event_count <= 10.
C24_NewVisitorOnlyOnBounce ==
    \A r \in Produced :
        /\ r.segment = "new-visitor" =>
              /\ r.is_bounce_session
              /\ r.page_views = 1
              /\ r.event_count = 2
              /\ r.engagement_score <= 50
              /\ r.churn_risk_score <= 700
        /\ ~r.is_bounce_session => r.event_count >= 3 /\ r.segment # "new-visitor"
        /\ r.segment = "re-engaged" =>
              /\ r.engagement_score >= 41
              /\ r.engagement_score <= 50
              /\ r.event_count >= 3
              /\ r.event_count <= 10

\* A bounce with one page view and two events is labelled 'new-visitor'.
C24_Witness ==
    \E r \in Produced :
        /\ r.segment = "new-visitor"
        /\ r.is_bounce_session
        /\ r.event_count = 2
        /\ r.engagement_score <= 50

\* C25: with the shipped country table, every city of every country has a
\* city_types entry equal to 'metro', so locality_type is 'metro' in every
\* record (the weighted draw over locality_types is never taken) and the
\* vector shopping_channel is drawn with is the 'metro' row of
\* channel_by_locality.
C25_LocalityAlwaysMetro ==
    /\ \A country \in DOMAIN cfg.apj_countries :
          LET cd == cfg.apj_countries[country]
          IN  \A k \in 1..Len(cd.cities) :
                  /\ cd.cities[k] \in DOMAIN cd.city_types
                  /\ cd.city_types[cd.cities[k]] = "metro"
    /\ "locality_type" \in defined => loc.locality_type = "metro"
    /\ pc = "purchase" =>
          cfg.channel_by_locality[loc.locality_type] = channel_by_locality.metro
    /\ \A r \in Produced : r.locality_type = "metro"

\* A record of the last city of the table, typed by the lookup, with a
\* shopping channel of the 'metro' row.
C25_Witness ==
    \E r \in Produced :
        /\ r.geo_country = "Malaysia"
        /\ r.geo_city = "Penang"
        /\ r.locality_type = "metro"
        /\ r.shopping_channel = "offline_only"

\* C26: on every path through upload_enhanced_data on which a connection was
\* opened, the cursor and the connection are closed when the function has
\* returned, also when DROP, CREATE, an INSERT batch or the COUNT query
\* raised; and without a token the function returns False with no
\* connection opened and no statement executed.
C26_ClosedOnEveryPath ==
    up.pc = "returned" =>
        /\ up.connection # None => up.cursor = "closed" /\ up.connection = "closed"
        /\ ~up.access_token =>
              up.result = "False" /\ up.connection = None /\ up.executed = <<>>

\* C27: for any sequence of connect, execute_query, execute_statement and
\* disconnect calls, a statement is only ever run on an open connection:
\* the two execute methods connect first when no connection is held and
\* return None / False without running anything when that connect fails,
\* and the first execute call after disconnect() establishes a new
\* connection instead of using the closed one.
C27_OnlyOnOpenConnection ==
    \A k \in 1..Len(mgr.calls) :
        LET call == mgr.calls[k]
        IN  call.op \in {"execute_query", "execute_statement"} =>
                /\ call.ran_on \in {None, "open"}
                /\ call.connect_failed =>
                      /\ call.ran_on = None
                      /\ call.result = IF call.op = "execute_query" THEN None ELSE "False"
                /\ k > 1 /\ mgr.calls[k - 1].op = "disconnect" => call.attempts = 1

\* The position of city in the list cities (0 when it is not in the list).
IndexOf(city, cities) ==
    IF \E k \in 1..Len(cities) : cities[k] = city
    THEN CHOOSE k \in 1..Len(cities) : cities[k] = city
    ELSE 0

\* C28: in every generated record, geo_city is a city of geo_country and
\* geo_state is the state listed at the same position as geo_city in that
\* country's table.
C28_StateMatchesCity ==
    \A r \in Produced :
        LET cd == cfg.apj_countries[r.geo_country]
            k == IndexOf(r.geo_city, cd.cities)
        IN  /\ k > 0
            /\ k <= Len(cd.states)
            /\ r.geo_state = cd.states[k]

\* C29 (as stated): in every generated record, event_count equals the number
\* of events in event_sequence_json.
C29_EventCountIsSequenceLength ==
    \A r \in Produced : r.event_count = Len(r.event_sequence_json)

\* C29: in every generated record, the sequence built by
\* _generate_event_sequence has exactly page_views events and its first
\* event's page is homepage, account or product; event_count is
\* max(2, page_views + r) with r in 1..8, so it exceeds the number of events
\* in event_sequence_json by 1 to 8.
C29_SequenceHasPageViewsEvents ==
    \A r \in Produced :
        LET events == r.event_sequence_json
        IN  /\ Len(events) = r.page_views
            /\ Len(events) >= 1
            /\ events[1].page \in {"homepage", "account", "product"}
            /\ \A k \in 1..Len(events) : events[k].page \in Range(page_types)
            /\ r.event_count - Len(events) \in 1..8

\* A record of three page views whose sequence has three events, the second
\* on a page that cannot come first, and whose event_count is larger.
C29_Witness ==
    \E r \in Produced :
        /\ r.page_views = 3
        /\ Len(r.event_sequence_json) = 3
        /\ r.event_sequence_json[1].page = "account"
        /\ r.event_sequence_json[2].page = "wishlist"
        /\ r.event_count > 3

====
